---------------------------- MODULE Spec2Model ----------------------------
(***************************************************************************)
(* Model of md2pdf.py: the line-oriented block parser                      *)
(* MarkdownToPDF.parse_markdown and the inline transformer                 *)
(* MarkdownToPDF._format_inline.                                           *)
(*                                                                         *)
(* A Python str is a sequence of one-character strings.  A flowable is a   *)
(* record whose kind is the name of the ReportLab class that the code      *)
(* instantiates; Spacer heights are in thousandths of an inch.             *)
(***************************************************************************)
EXTENDS Integers, Sequences, FiniteSets, TLC

VARIABLES
    \* parse_markdown
    lines, i, in_code_block, code_block_lines, in_list, list_items,
    flowables, pc,
    \* the flowables that hold the very list object list_items is bound to
    aliases,
    \* the calls of parse_markdown on one converter: their number, and the
    \* document and the result of each call that has returned
    calls, returned,
    \* _format_inline
    arg, text, code_parts, ri, stage,
    \* main, the glob batch: the matched files, the number of files the for
    \* loop is done with, what was printed, and the position in main
    input_files, file_index, stdout, main_pc

callVars   == <<calls, returned>>
parseVars  == <<lines, i, in_code_block, code_block_lines, in_list,
                list_items, flowables, pc, aliases, calls, returned>>
inlineVars == <<arg, text, code_parts, ri, stage>>
batchVars  == <<input_files, file_index, stdout, main_pc>>
vars       == <<lines, i, in_code_block, code_block_lines, in_list,
                list_items, flowables, pc, aliases, calls, returned,
                arg, text, code_parts, ri, stage,
                input_files, file_index, stdout, main_pc>>

---------------------------------------------------------------------------
(* Bounds *)

\* lines of a document
MaxLines == 4
\* characters of a one-line document
MaxLineLen == 4
\* tokens of an argument of _format_inline
MaxTokens == 4
\* files matched by the glob pattern
MaxFiles == 3
\* calls of parse_markdown on one converter
MaxCalls == 3
\* lines of a document of the termination check
MaxLiveLines == 2

---------------------------------------------------------------------------
(* Python str primitives *)

Whitespace == {" ", "\t"}

WordChars ==
    {"a", "b", "c", "d", "e", "f", "g", "h", "i", "j", "k", "l", "m", "n",
     "o", "p", "q", "r", "s", "t", "u", "v", "w", "x", "y", "z", "A", "B",
     "C", "D", "E", "F", "G", "H", "I", "J", "K", "L", "M", "N", "O", "P",
     "Q", "R", "S", "T", "U", "V", "W", "X", "Y", "Z", "0", "1", "2", "3",
     "4", "5", "6", "7", "8", "9", "_"}

\* The grave accent (U+0060), the delimiter of code spans and code fences; a
\* TLA+ string literal cannot contain that character, so it is named here.
Backtick == "GRAVE"

Digits == <<"0", "1", "2", "3", "4", "5", "6", "7", "8", "9">>

Min(S) == CHOOSE x \in S : \A y \in S : x <= y

RECURSIVE lstrip(_)
lstrip(s) ==
    IF s # <<>> /\ Head(s) \in Whitespace THEN lstrip(Tail(s)) ELSE s

RECURSIVE rstrip(_)
rstrip(s) ==
    IF s # <<>> /\ s[Len(s)] \in Whitespace
    THEN rstrip(SubSeq(s, 1, Len(s) - 1))
    ELSE s

strip(s) == rstrip(lstrip(s))

\* s[p:].startswith(pat), p counted from 1
MatchAt(s, p, pat) ==
    /\ p >= 1
    /\ p + Len(pat) - 1 <= Len(s)
    /\ SubSeq(s, p, p + Len(pat) - 1) = pat

startswith(s, pat) == MatchAt(s, 1, pat)

\* least q >= from at which pat occurs in s, 0 when there is none
FirstAt(s, from, pat) ==
    LET S == {q \in from..Len(s) : MatchAt(s, q, pat)}
    IN  IF S = {} THEN 0 ELSE Min(S)

\* str.replace(old, new): every non-overlapping occurrence, left to right
RECURSIVE ReplaceFrom(_, _, _, _)
ReplaceFrom(s, p, old, new) ==
    LET m == FirstAt(s, p, old)
    IN  IF m = 0 THEN SubSeq(s, p, Len(s))
        ELSE SubSeq(s, p, m - 1) \o new
                 \o ReplaceFrom(s, m + Len(old), old, new)

replace(s, old, new) == ReplaceFrom(s, 1, old, new)

\* '\n'.join(ls)
RECURSIVE join(_)
join(ls) ==
    IF ls = <<>> THEN <<>>
    ELSE IF Len(ls) = 1 THEN ls[1]
    ELSE ls[1] \o <<"\n">> \o join(Tail(ls))

\* str(n) for n >= 0
RECURSIVE str(_)
str(n) ==
    IF n < 10 THEN <<Digits[n + 1]>>
    ELSE str(n \div 10) \o <<Digits[(n % 10) + 1]>>

---------------------------------------------------------------------------
(* _format_inline *)

\* escape with the ampersand replaced last
escape_ampersand_last(t) ==
    replace(replace(replace(t, <<"<">>, <<"&", "l", "t", ";">>),
                    <<">">>, <<"&", "g", "t", ";">>),
            <<"&">>, <<"&", "a", "m", "p", ";">>)

\* the three text.replace calls that escape XML special characters
escape(t) ==
    replace(replace(replace(t, <<"&">>, <<"&", "a", "m", "p", ";">>),
                    <<"<">>, <<"&", "l", "t", ";">>),
            <<">">>, <<"&", "g", "t", ";">>)

\* f'__CODE_PLACEHOLDER_{n}__'
Placeholder(n) ==
    <<"_", "_", "C", "O", "D", "E", "_", "P", "L", "A", "C", "E", "H", "O",
      "L", "D", "E", "R", "_">> \o str(n) \o <<"_", "_">>

\* f'<font name="Courier" color="#c7254e" backColor="#f9f2f4">{code}</font>'
CodeTagOpen ==
    <<"<", "f", "o", "n", "t", " ", "n", "a", "m", "e", "=", "\"", "C",
      "o", "u", "r", "i", "e", "r", "\"", " ", "c", "o", "l", "o", "r",
      "=", "\"", "#", "c", "7", "2", "5", "4", "e", "\"", " ", "b", "a",
      "c", "k", "C", "o", "l", "o", "r", "=", "\"", "#", "f", "9", "f",
      "2", "f", "4", "\"", ">">>
CodeTagClose == <<"<", "/", "f", "o", "n", "t", ">">>
CodeTag(code) == CodeTagOpen \o code \o CodeTagClose

\* the bold span written with asterisks instead of the tag
BoldTag_asterisks(t) == <<"*", "*">> \o t \o <<"*", "*">>

BoldTag(t) == <<"<", "b", ">">> \o t \o <<"<", "/", "b", ">">>


ItalicTag(t) == <<"<", "i", ">">> \o t \o <<"<", "/", "i", ">">>

\* r'<font color="blue"><u>\1</u></font>'
LinkTag(label) ==
    <<"<", "f", "o", "n", "t", " ", "c", "o", "l", "o", "r", "=", "\"",
      "b", "l", "u", "e", "\"", ">", "<", "u", ">">>
    \o label \o <<"<", "/", "u", ">", "<", "/", "f", "o", "n", "t", ">">>

\* PairClose with a greedy group: the last closing d
PairClose_greedy(s, p, d) ==
    IF MatchAt(s, p, d)
    THEN LET S == {q \in (p + Len(d) + 1)..Len(s) : MatchAt(s, q, d)}
         IN  IF S = {} THEN 0 ELSE CHOOSE q \in S : \A r \in S : r <= q
    ELSE 0

\* A match of  d(.+?)d  that starts at p: the position of the closing d,
\* the nearest one that leaves at least one character in the group; 0 when
\* the pattern does not match at p.
PairClose(s, p, d) ==
    IF MatchAt(s, p, d) THEN FirstAt(s, p + Len(d) + 1, d) ELSE 0

\* re.sub scans for the leftmost match: the least start >= p at which
\* d(.+?)d matches, 0 when there is none
PairStart(s, p, d) ==
    LET S == {k \in p..Len(s) : PairClose(s, k, d) # 0}
    IN  IF S = {} THEN 0 ELSE Min(S)

\* re.sub(r'`(.+?)`', save_code, text): the groups appended to code_parts
RECURSIVE save_code_parts(_, _)
save_code_parts(s, p) ==
    LET m == PairStart(s, p, <<Backtick>>)
        q == PairClose(s, m, <<Backtick>>)
    IN  IF m = 0 THEN <<>>
        ELSE <<SubSeq(s, m + 1, q - 1)>> \o save_code_parts(s, q + 1)

\* re.sub(r'`(.+?)`', save_code, text): the text with the placeholders,
\* n being len(code_parts) before the match at hand
RECURSIVE save_code_text(_, _, _)
save_code_text(s, p, n) ==
    LET m == PairStart(s, p, <<Backtick>>)
        q == PairClose(s, m, <<Backtick>>)
    IN  IF m = 0 THEN SubSeq(s, p, Len(s))
        ELSE SubSeq(s, p, m - 1) \o Placeholder(n)
                 \o save_code_text(s, q + 1, n + 1)

\* re.sub(r'\*\*(.+?)\*\*', r'<b>\1</b>', text) and
\* re.sub(r'__(.+?)__', r'<b>\1</b>', text), d the two-character delimiter
RECURSIVE sub_bold(_, _, _)
sub_bold(s, p, d) ==
    LET m == PairStart(s, p, d)
        q == PairClose(s, m, d)
    IN  IF m = 0 THEN SubSeq(s, p, Len(s))
        ELSE SubSeq(s, p, m - 1) \o BoldTag(SubSeq(s, m + Len(d), q - 1))
                 \o sub_bold(s, q + Len(d), d)

\* re.sub(r'\*(.+?)\*', r'<i>\1</i>', text)
RECURSIVE sub_italic_star(_, _)
sub_italic_star(s, p) ==
    LET m == PairStart(s, p, <<"*">>)
        q == PairClose(s, m, <<"*">>)
    IN  IF m = 0 THEN SubSeq(s, p, Len(s))
        ELSE SubSeq(s, p, m - 1) \o ItalicTag(SubSeq(s, m + 1, q - 1))
                 \o sub_italic_star(s, q + 1)

\* \b between s[k] and s[k+1] (k = 0: before the first character)
IsWordAt(s, k) == k >= 1 /\ k <= Len(s) /\ s[k] \in WordChars
WordBoundary(s, k) == IsWordAt(s, k) # IsWordAt(s, k + 1)

\* A match of  \b_(.+?)_\b  that starts at p: position of the closing _
UnderscoreClose(s, p) ==
    IF MatchAt(s, p, <<"_">>) /\ WordBoundary(s, p - 1)
    THEN LET S == {q \in (p + 2)..Len(s) :
                       s[q] = "_" /\ WordBoundary(s, q)}
         IN  IF S = {} THEN 0 ELSE Min(S)
    ELSE 0

UnderscoreStart(s, p) ==
    LET S == {k \in p..Len(s) : UnderscoreClose(s, k) # 0}
    IN  IF S = {} THEN 0 ELSE Min(S)

\* re.sub(r'\b_(.+?)_\b', r'<i>\1</i>', text)
RECURSIVE sub_italic_underscore(_, _)
sub_italic_underscore(s, p) ==
    LET m == UnderscoreStart(s, p)
        q == UnderscoreClose(s, m)
    IN  IF m = 0 THEN SubSeq(s, p, Len(s))
        ELSE SubSeq(s, p, m - 1) \o ItalicTag(SubSeq(s, m + 1, q - 1))
                 \o sub_italic_underscore(s, q + 1)

\* A match of  \[(.+?)\]\((.+?)\)  that starts at p: <<q, r>>, q the
\* position of "](" and r the position of the closing ")"; <<0, 0>> when
\* the pattern does not match at p.
LinkMatch(s, p) ==
    IF MatchAt(s, p, <<"[">>)
    THEN LET q == FirstAt(s, p + 2, <<"]", "(">>)
             r == IF q = 0 THEN 0 ELSE FirstAt(s, q + 3, <<")">>)
         IN  IF r = 0 THEN <<0, 0>> ELSE <<q, r>>
    ELSE <<0, 0>>

LinkStart(s, p) ==
    LET S == {k \in p..Len(s) : LinkMatch(s, k)[1] # 0}
    IN  IF S = {} THEN 0 ELSE Min(S)

\* re.sub(r'\[(.+?)\]\((.+?)\)', r'<font color="blue"><u>\1</u></font>', text)
RECURSIVE sub_link(_, _)
sub_link(s, p) ==
    LET m  == LinkStart(s, p)
        qr == LinkMatch(s, m)
    IN  IF m = 0 THEN SubSeq(s, p, Len(s))
        ELSE SubSeq(s, p, m - 1) \o LinkTag(SubSeq(s, m + 1, qr[1] - 1))
                 \o sub_link(s, qr[2] + 1)

\* one iteration of  for i, code in enumerate(code_parts)
restore_one(t, parts, k) ==
    replace(t, Placeholder(k), CodeTag(parts[k + 1]))

RECURSIVE restore(_, _, _)
restore(t, parts, k) ==
    IF k >= Len(parts) THEN t
    ELSE restore(restore_one(t, parts, k), parts, k + 1)

\* the two re.sub calls under "Bold (**text** or __text__)"
bold(t) == sub_bold(sub_bold(t, 1, <<"*", "*">>), 1, <<"_", "_">>)

\* the two re.sub calls under "Italic (*text* or _text_)"
italic(t) == sub_italic_underscore(sub_italic_star(t, 1), 1)

\* the re.sub call under "Links [text](url)"
links(t) == sub_link(t, 1)

format_inline(t) ==
    LET e     == escape(t)
        parts == save_code_parts(e, 1)
        prot  == save_code_text(e, 1, 0)
    IN  restore(links(italic(bold(prot))), parts, 0)

---------------------------------------------------------------------------
(* _format_inline, statement by statement *)

\* the pieces the arguments of _format_inline are assembled from
InlineTokens ==
    { <<Backtick>>, <<"a">>, <<"*">>, <<"_">>, <<"&">>, <<" ">>,
      <<Backtick, "b", Backtick>>,
      <<"*", "*">>, <<"_", "_">>, <<"*", "a", "*">>,
      <<"[", "a", "]", "(", "b", ")">> }

RECURSIVE Flatten(_)
Flatten(ts) == IF ts = <<>> THEN <<>> ELSE Head(ts) \o Flatten(Tail(ts))

InlineInputs ==
    { Flatten(ts) : ts \in UNION {[1..n -> InlineTokens] : n \in 0..MaxTokens} }

InitInline ==
    /\ arg \in InlineInputs
    /\ text = arg
    /\ code_parts = <<>>
    /\ ri = 0
    /\ stage = "escape"
    /\ lines = <<>>
    /\ i = 0
    /\ in_code_block = FALSE
    /\ code_block_lines = <<>>
    /\ in_list = FALSE
    /\ list_items = <<>>
    /\ flowables = <<>>
    /\ pc = "idle"
    /\ aliases = {}
    /\ calls = 0
    /\ returned = <<>>
    /\ input_files = <<>>
    /\ file_index = 0
    /\ stdout = <<>>
    /\ main_pc = "idle"

EscapeXml ==
    /\ stage = "escape"
    /\ text' = escape(text)
    /\ stage' = "code"
    /\ UNCHANGED <<arg, code_parts, ri, parseVars, batchVars>>

ProtectCode ==
    /\ stage = "code"
    /\ code_parts' = code_parts \o save_code_parts(text, 1)
    /\ text' = save_code_text(text, 1, Len(code_parts))
    /\ stage' = "bold"
    /\ UNCHANGED <<arg, ri, parseVars, batchVars>>

Bold ==
    /\ stage = "bold"
    /\ text' = bold(text)
    /\ stage' = "italic"
    /\ UNCHANGED <<arg, code_parts, ri, parseVars, batchVars>>

Italic ==
    /\ stage = "italic"
    /\ text' = italic(text)
    /\ stage' = "link"
    /\ UNCHANGED <<arg, code_parts, ri, parseVars, batchVars>>

Links ==
    /\ stage = "link"
    /\ text' = links(text)
    /\ stage' = "restore"
    /\ ri' = 0
    /\ UNCHANGED <<arg, code_parts, parseVars, batchVars>>

RestoreCode ==
    /\ stage = "restore"
    /\ ri < Len(code_parts)
    /\ text' = restore_one(text, code_parts, ri)
    /\ ri' = ri + 1
    /\ UNCHANGED <<arg, code_parts, stage, parseVars, batchVars>>

ReturnText ==
    /\ stage = "restore"
    /\ ri >= Len(code_parts)
    /\ stage' = "done"
    /\ UNCHANGED <<arg, text, code_parts, ri, parseVars, batchVars>>

NextInline ==
    \/ EscapeXml
    \/ ProtectCode
    \/ Bold
    \/ Italic
    \/ Links
    \/ RestoreCode
    \/ ReturnText

SpecInline == InitInline /\ [][NextInline]_vars

---------------------------------------------------------------------------
(* parse_markdown *)

\* the flowables the code constructs
Preformatted(t) == [kind |-> "Preformatted", text |-> t, style |-> "Code"]
Spacer(h) == [kind |-> "Spacer", height |-> h]
Paragraph(t, style) == [kind |-> "Paragraph", text |-> t, style |-> style]
ListFlowable(items, start) ==
    [kind |-> "ListFlowable", items |-> items, start |-> start]
PageBreak == [kind |-> "PageBreak"]

\* line.strip().startswith('```')
IsFence(line) == startswith(strip(line), <<Backtick, Backtick, Backtick>>)

\* line.strip().startswith(('-', '*', '+'))
IsListLine(line) ==
    \E m \in {"-", "*", "+"} : startswith(strip(line), <<m>>)

\* re.sub(r'^[\-\*\+]\s+', '', s)
strip_marker(s) ==
    IF Len(s) >= 2 /\ s[1] \in {"-", "*", "+"} /\ s[2] \in Whitespace
    THEN lstrip(SubSeq(s, 2, Len(s)))
    ELSE s

\* the heading marker of a line by the if/elif chain of the code: 1, 2, 3,
\* or 0 when no heading branch is taken
HeadingLevel(line) ==
    IF startswith(line, <<"#", " ">>) THEN 1
    ELSE IF startswith(line, <<"#", "#", " ">>) THEN 2
    ELSE IF startswith(line, <<"#", "#", "#", " ">>) THEN 3
    ELSE 0

\* line.strip() in ('---', '***', '___')
IsRule(line) ==
    strip(line) \in {<<"-", "-", "-">>, <<"*", "*", "*">>, <<"_", "_", "_">>}

\* the lines the multi-line documents are made of
LinePool ==
    { <<>>,                                  \* blank
      <<"-", " ", "a">>,                     \* list item
      <<"+", " ", "b">>,                     \* list item
      <<"-", "a">>,                          \* marker without whitespace
      <<"-", "-", "-">>,                     \* rule
      <<"*", "*", "*">>,                     \* rule
      <<"_", "_", "_">>,                     \* rule
      <<Backtick, Backtick, Backtick>>,      \* fence
      <<"#", " ", "T">>,                     \* heading 1
      <<"#", "#", " ", "S">>,                \* heading 2
      <<"#", "#", "#", " ", "U">>,           \* heading 3
      <<" ", "x", "<", "y", " ">> }          \* paragraph

\* the characters the one-line documents are made of
LineAlphabet == {"-", "+", "#", " ", "a", "<", "&", "*", "_", Backtick}

OneLiners == UNION {[1..n -> LineAlphabet] : n \in 0..MaxLineLen}

\* lines = md_content.split('\n'): str.split returns at least one line
Documents ==
    UNION {[1..n -> LinePool] : n \in 1..MaxLines}
        \cup { <<t>> : t \in OneLiners }

Init ==
    /\ lines \in Documents
    /\ i = 0
    /\ in_code_block = FALSE
    /\ code_block_lines = <<>>
    /\ in_list = FALSE
    /\ list_items = <<>>
    /\ flowables = <<>>
    /\ pc = "loop"
    /\ arg = <<>>
    /\ text = <<>>
    /\ code_parts = <<>>
    /\ ri = 0
    /\ stage = "idle"
    /\ aliases = {}
    /\ calls = 1
    /\ returned = <<>>
    /\ input_files = <<>>
    /\ file_index = 0
    /\ stdout = <<>>
    /\ main_pc = "idle"

\* while i < len(lines): line = lines[i]
InLoop == pc = "loop" /\ i < Len(lines)
line == lines[i + 1]

\* "if in_list and list_items: flowables.append(ListFlowable(...))", as the
\* heading, rule, paragraph and empty-line branches have it
PendingList == in_list /\ list_items # <<>>
Flushed(fl) ==
    IF PendingList THEN Append(fl, ListFlowable(list_items, "None")) ELSE fl
\* FlushState without "in_list = False; list_items = []": the flowable just
\* appended holds the list that the next items are appended to
FlushState_keeps_list ==
    /\ UNCHANGED <<in_list, list_items>>
    /\ aliases' =
           (IF PendingList THEN aliases \cup {Len(flowables) + 1} ELSE aliases)

FlushState ==
    /\ in_list' = (IF PendingList THEN FALSE ELSE in_list)
    /\ list_items' = (IF PendingList THEN <<>> ELSE list_items)
    /\ aliases' = (IF PendingList THEN {} ELSE aliases)

\* FenceOpen without "i += 1"
FenceOpen_no_advance ==
    /\ InLoop
    /\ IsFence(line)
    /\ ~in_code_block
    /\ in_code_block' = TRUE
    /\ code_block_lines' = <<>>
    /\ UNCHANGED <<lines, i, in_list, list_items, flowables, pc, aliases,
                   callVars, inlineVars, batchVars>>

\* a fence line while no code block is open
FenceOpen ==
    /\ InLoop
    /\ IsFence(line)
    /\ ~in_code_block
    /\ in_code_block' = TRUE
    /\ code_block_lines' = <<>>
    /\ i' = i + 1
    /\ UNCHANGED <<lines, in_list, list_items, flowables, pc, aliases,
                   callVars, inlineVars, batchVars>>

\* a fence line while a code block is open
FenceClose ==
    /\ InLoop
    /\ IsFence(line)
    /\ in_code_block
    /\ flowables' = flowables \o
           <<Preformatted(join(code_block_lines)), Spacer(200)>>
    /\ in_code_block' = FALSE
    /\ code_block_lines' = <<>>
    /\ i' = i + 1
    /\ UNCHANGED <<lines, in_list, list_items, pc, aliases,
                   callVars, inlineVars, batchVars>>

\* CodeLine appending the trimmed line
CodeLine_stripped ==
    /\ InLoop
    /\ ~IsFence(line)
    /\ in_code_block
    /\ code_block_lines' = Append(code_block_lines, strip(line))
    /\ i' = i + 1
    /\ UNCHANGED <<lines, in_code_block, in_list, list_items, flowables, pc,
                   aliases, callVars, inlineVars, batchVars>>

\* if in_code_block: code_block_lines.append(line)
CodeLine ==
    /\ InLoop
    /\ ~IsFence(line)
    /\ in_code_block
    /\ code_block_lines' = Append(code_block_lines, line)
    /\ i' = i + 1
    /\ UNCHANGED <<lines, in_code_block, in_list, list_items, flowables, pc,
                   aliases, callVars, inlineVars, batchVars>>

\* "Handle lists"
ListItem ==
    /\ InLoop
    /\ ~IsFence(line)
    /\ ~in_code_block
    /\ IsListLine(line)
    /\ in_list' = TRUE
    /\ list_items' =
           Append(IF in_list THEN list_items ELSE <<>>,
                  Paragraph(format_inline(strip_marker(strip(line))),
                            "CustomBody"))
    /\ aliases' = (IF in_list THEN aliases ELSE {})
    /\ flowables' =
           [j \in 1..Len(flowables) |->
               IF j \in aliases'
               THEN [flowables[j] EXCEPT !.items = list_items']
               ELSE flowables[j]]
    /\ i' = i + 1
    /\ UNCHANGED <<lines, in_code_block, code_block_lines, pc,
                   callVars, inlineVars, batchVars>>

\* ListEnd without "list_items = []"
ListEnd_keeps_items ==
    /\ InLoop
    /\ ~IsFence(line)
    /\ ~in_code_block
    /\ ~IsListLine(line)
    /\ in_list
    /\ strip(line) = <<>>
    /\ flowables' =
           (IF list_items # <<>>
            THEN flowables \o <<ListFlowable(list_items, "U+2022"), Spacer(100)>>
            ELSE flowables)
    /\ in_list' = FALSE
    /\ aliases' = (IF list_items # <<>> THEN {Len(flowables) + 1} ELSE aliases)
    /\ i' = i + 1
    /\ UNCHANGED <<lines, in_code_block, code_block_lines, list_items, pc,
                   callVars, inlineVars, batchVars>>

\* elif in_list and line.strip() == '': "End of list"
ListEnd ==
    /\ InLoop
    /\ ~IsFence(line)
    /\ ~in_code_block
    /\ ~IsListLine(line)
    /\ in_list
    /\ strip(line) = <<>>
    /\ flowables' =
           (IF list_items # <<>>
            THEN flowables \o <<ListFlowable(list_items, "U+2022"), Spacer(100)>>
            ELSE flowables)
    /\ in_list' = FALSE
    /\ list_items' = <<>>
    /\ aliases' = {}
    /\ i' = i + 1
    /\ UNCHANGED <<lines, in_code_block, code_block_lines, pc,
                   callVars, inlineVars, batchVars>>

\* the guard shared by the branches below the list handling
Block ==
    /\ InLoop
    /\ ~IsFence(line)
    /\ ~in_code_block
    /\ ~IsListLine(line)
    /\ ~(in_list /\ strip(line) = <<>>)

\* if line.startswith('# ')
Heading1 ==
    /\ Block
    /\ HeadingLevel(line) = 1
    /\ flowables' = Flushed(flowables) \o
           <<Paragraph(format_inline(strip(SubSeq(line, 3, Len(line)))),
                       "Heading1"),
             Spacer(150)>>
    /\ FlushState
    /\ i' = i + 1
    /\ UNCHANGED <<lines, in_code_block, code_block_lines, pc,
                   callVars, inlineVars, batchVars>>

\* Heading2 without the page break
Heading2_no_break ==
    /\ Block
    /\ HeadingLevel(line) = 2
    /\ flowables' = Flushed(flowables) \o
           <<Paragraph(format_inline(strip(SubSeq(line, 4, Len(line)))),
                       "Heading2"),
             Spacer(120)>>
    /\ FlushState
    /\ i' = i + 1
    /\ UNCHANGED <<lines, in_code_block, code_block_lines, pc,
                   callVars, inlineVars, batchVars>>

\* elif line.startswith('## ')
Heading2 ==
    /\ Block
    /\ HeadingLevel(line) = 2
    /\ flowables' = Flushed(flowables) \o
           <<PageBreak,
             Paragraph(format_inline(strip(SubSeq(line, 4, Len(line)))),
                       "Heading2"),
             Spacer(120)>>
    /\ FlushState
    /\ i' = i + 1
    /\ UNCHANGED <<lines, in_code_block, code_block_lines, pc,
                   callVars, inlineVars, batchVars>>

\* elif line.startswith('### ')
Heading3 ==
    /\ Block
    /\ HeadingLevel(line) = 3
    /\ flowables' = Flushed(flowables) \o
           <<Paragraph(format_inline(strip(SubSeq(line, 5, Len(line)))),
                       "Heading3"),
             Spacer(100)>>
    /\ FlushState
    /\ i' = i + 1
    /\ UNCHANGED <<lines, in_code_block, code_block_lines, pc,
                   callVars, inlineVars, batchVars>>

\* elif line.strip() in ('---', '***', '___'): "Horizontal rule"
HorizontalRule ==
    /\ Block
    /\ HeadingLevel(line) = 0
    /\ IsRule(line)
    /\ flowables' = Append(Flushed(flowables), Spacer(200))
    /\ FlushState
    /\ i' = i + 1
    /\ UNCHANGED <<lines, in_code_block, code_block_lines, pc,
                   callVars, inlineVars, batchVars>>

\* elif line.strip(): "Regular paragraphs"
RegularParagraph ==
    /\ Block
    /\ HeadingLevel(line) = 0
    /\ ~IsRule(line)
    /\ strip(line) # <<>>
    /\ flowables' = Flushed(flowables) \o
           <<Paragraph(format_inline(strip(line)), "CustomBody"), Spacer(50)>>
    /\ FlushState
    /\ i' = i + 1
    /\ UNCHANGED <<lines, in_code_block, code_block_lines, pc,
                   callVars, inlineVars, batchVars>>

\* else: "Empty line"
EmptyLine ==
    /\ Block
    /\ HeadingLevel(line) = 0
    /\ ~IsRule(line)
    /\ strip(line) = <<>>
    /\ flowables' =
           (IF PendingList
            THEN flowables \o <<ListFlowable(list_items, "None"), Spacer(100)>>
            ELSE flowables)
    /\ FlushState
    /\ i' = i + 1
    /\ UNCHANGED <<lines, in_code_block, code_block_lines, pc,
                   callVars, inlineVars, batchVars>>

\* the loop is left: "Handle remaining list items" and return flowables
Return ==
    /\ pc = "loop"
    /\ i >= Len(lines)
    /\ flowables' = Flushed(flowables)
    /\ aliases' =
           (IF PendingList THEN aliases \cup {Len(flowables) + 1} ELSE aliases)
    /\ returned' = Append(returned, [doc |-> lines, result |-> flowables'])
    /\ pc' = "done"
    /\ UNCHANGED <<lines, i, in_code_block, code_block_lines, in_list,
                   list_items, calls, inlineVars, batchVars>>

Next ==
    \/ FenceOpen
    \/ FenceClose
    \/ CodeLine
    \/ ListItem
    \/ ListEnd
    \/ Heading1
    \/ Heading2
    \/ Heading3
    \/ HorizontalRule
    \/ RegularParagraph
    \/ EmptyLine
    \/ Return

Spec == Init /\ [][Next]_vars

---------------------------------------------------------------------------
(* main: the glob batch.  A file is a number; glob returns the matched    *)
(* paths, each once, in an order of its own.  convert either returns or   *)
(* raises an Exception: which of the two is up to the file, the disk and   *)
(* the renderer.                                                           *)

Files == 1..MaxFiles
InputFileLists ==
    {fs \in UNION {[1..n -> Files] : n \in 0..MaxFiles} :
        \A j, k \in 1..Len(fs) : fs[j] = fs[k] => j = k}

\* input_files = glob(input_pattern)
InitBatch ==
    /\ input_files \in InputFileLists
    /\ file_index = 0
    /\ stdout = <<>>
    /\ main_pc = "glob"
    /\ lines = <<>>
    /\ i = 0
    /\ in_code_block = FALSE
    /\ code_block_lines = <<>>
    /\ in_list = FALSE
    /\ list_items = <<>>
    /\ flowables = <<>>
    /\ pc = "idle"
    /\ aliases = {}
    /\ calls = 0
    /\ returned = <<>>
    /\ arg = <<>>
    /\ text = <<>>
    /\ code_parts = <<>>
    /\ ri = 0
    /\ stage = "idle"

\* if not input_files: print("No files matching: ..."); sys.exit(1)
NoMatch ==
    /\ main_pc = "glob"
    /\ input_files = <<>>
    /\ stdout' = Append(stdout, [kind |-> "no_match"])
    /\ main_pc' = "exit"
    /\ UNCHANGED <<input_files, file_index, parseVars, inlineVars>>

\* print("Converting n file(s)..."); converter = MarkdownToPDF()
StartBatch ==
    /\ main_pc = "glob"
    /\ input_files # <<>>
    /\ stdout' = Append(stdout, [kind |-> "converting", n |-> Len(input_files)])
    /\ main_pc' = "for"
    /\ UNCHANGED <<input_files, file_index, parseVars, inlineVars>>

\* for md_file in input_files
InFor == main_pc = "for" /\ file_index < Len(input_files)
md_file == input_files[file_index + 1]

\* try: pdf_file = converter.convert(md_file); print("(ok) md_file -> pdf_file")
ConvertOk ==
    /\ InFor
    /\ stdout' = Append(stdout, [kind |-> "ok", file |-> md_file])
    /\ file_index' = file_index + 1
    /\ UNCHANGED <<input_files, main_pc, parseVars, inlineVars>>

\* ConvertRaises without the try: the exception leaves main
ConvertRaises_aborts ==
    /\ InFor
    /\ stdout' = Append(stdout, [kind |-> "failed", file |-> md_file])
    /\ file_index' = file_index + 1
    /\ main_pc' = "raised"
    /\ UNCHANGED <<input_files, parseVars, inlineVars>>

\* except Exception as e: print("(failed) md_file: e")
ConvertRaises ==
    /\ InFor
    /\ stdout' = Append(stdout, [kind |-> "failed", file |-> md_file])
    /\ file_index' = file_index + 1
    /\ UNCHANGED <<input_files, main_pc, parseVars, inlineVars>>

\* the for loop is left: print("Converted n files!")
Summary ==
    /\ main_pc = "for"
    /\ file_index >= Len(input_files)
    /\ stdout' = Append(stdout, [kind |-> "summary", n |-> Len(input_files)])
    /\ main_pc' = "done"
    /\ UNCHANGED <<input_files, file_index, parseVars, inlineVars>>

NextBatch ==
    \/ NoMatch
    \/ StartBatch
    \/ ConvertOk
    \/ ConvertRaises
    \/ Summary

SpecBatch == InitBatch /\ [][NextBatch]_vars

---------------------------------------------------------------------------
(* Several calls of parse_markdown on one converter, as the for loop of   *)
(* main makes them through convert, one after the other.                   *)

CallDocuments ==
    { <<<<"-", " ", "a">>>>,
      <<<<Backtick, Backtick, Backtick>>, <<"-", " ", "a">>>>,
      <<<<"-", " ", "a">>, <<Backtick, Backtick, Backtick>>>>,
      <<<<" ", "x", "<", "y", " ">>>>,
      <<<<"#", " ", "T">>, <<"#", "#", " ", "S">>, <<"#", "#", "#", " ", "U">>,
        <<"_", "_", "_">>>>,
      <<<<Backtick, Backtick, Backtick>>, <<Backtick, Backtick, Backtick>>,
        <<>>, <<"+", " ", "b">>, <<>>>> }

InitCalls ==
    /\ lines \in CallDocuments
    /\ i = 0
    /\ in_code_block = FALSE
    /\ code_block_lines = <<>>
    /\ in_list = FALSE
    /\ list_items = <<>>
    /\ flowables = <<>>
    /\ pc = "loop"
    /\ aliases = {}
    /\ calls = 1
    /\ returned = <<>>
    /\ arg = <<>>
    /\ text = <<>>
    /\ code_parts = <<>>
    /\ ri = 0
    /\ stage = "idle"
    /\ input_files = <<>>
    /\ file_index = 0
    /\ stdout = <<>>
    /\ main_pc = "idle"

\* NewCall that leaves the modes and the accumulators as the last call
\* left them
NewCall_keeps_modes ==
    /\ pc = "done"
    /\ calls < MaxCalls
    /\ lines' \in CallDocuments
    /\ flowables' = <<>>
    /\ i' = 0
    /\ aliases' = {}
    /\ pc' = "loop"
    /\ calls' = calls + 1
    /\ UNCHANGED <<in_code_block, code_block_lines, in_list, list_items,
                   returned, inlineVars, batchVars>>

\* the next call: the locals of parse_markdown are bound anew
NewCall ==
    /\ pc = "done"
    /\ calls < MaxCalls
    /\ lines' \in CallDocuments
    /\ flowables' = <<>>
    /\ i' = 0
    /\ in_code_block' = FALSE
    /\ code_block_lines' = <<>>
    /\ in_list' = FALSE
    /\ list_items' = <<>>
    /\ aliases' = {}
    /\ pc' = "loop"
    /\ calls' = calls + 1
    /\ UNCHANGED <<returned, inlineVars, batchVars>>

NextCalls ==
    \/ Next
    \/ NewCall

SpecCalls == InitCalls /\ [][NextCalls]_vars

---------------------------------------------------------------------------
(* One call of parse_markdown that is never left half way: the statements *)
(* of a sequential program are executed as long as there is one to execute *)

LiveDocuments ==
    UNION {[1..n -> LinePool] : n \in 1..MaxLiveLines}

InitLive ==
    /\ lines \in LiveDocuments
    /\ i = 0
    /\ in_code_block = FALSE
    /\ code_block_lines = <<>>
    /\ in_list = FALSE
    /\ list_items = <<>>
    /\ flowables = <<>>
    /\ pc = "loop"
    /\ aliases = {}
    /\ calls = 1
    /\ returned = <<>>
    /\ arg = <<>>
    /\ text = <<>>
    /\ code_parts = <<>>
    /\ ri = 0
    /\ stage = "idle"
    /\ input_files = <<>>
    /\ file_index = 0
    /\ stdout = <<>>
    /\ main_pc = "idle"

\* the branches that call _format_inline, and the other steps
FormatStep == ListItem \/ Heading1 \/ Heading2 \/ Heading3 \/ RegularParagraph
PlainStep ==
    FenceOpen \/ FenceClose \/ CodeLine \/ ListEnd \/ HorizontalRule
        \/ EmptyLine \/ Return

\* the line at i goes to a branch that calls _format_inline: the condition
\* under which FormatStep can be taken
CallsFormatInline ==
    /\ InLoop
    /\ ~IsFence(line)
    /\ ~in_code_block
    /\ \/ IsListLine(line)
       \/ /\ ~(in_list /\ strip(line) = <<>>)
          /\ HeadingLevel(line) > 0 \/ (~IsRule(line) /\ strip(line) # <<>>)

\* weak fairness of both kinds of step; for FormatStep it is spelled with
\* CallsFormatInline in the place of ENABLED <<FormatStep>>_vars
SpecLive ==
    /\ InitLive
    /\ [][Next]_vars
    /\ WF_vars(PlainStep)
    /\ ([]<>~CallsFormatInline \/ []<><<FormatStep>>_vars)

---------------------------------------------------------------------------
(* Vocabulary of the properties *)

Last(q) == q[Len(q)]

\* pat occurs in s
Occurs(s, pat) == FirstAt(s, 1, pat) # 0

\* number of non-overlapping occurrences of pat in s from position p on
RECURSIVE CountFrom(_, _, _)
CountFrom(s, p, pat) ==
    LET m == FirstAt(s, p, pat)
    IN  IF m = 0 THEN 0 ELSE 1 + CountFrom(s, m + Len(pat), pat)

\* the code-span tags of parts[k..] occur in s from position p on, one after
\* the other
RECURSIVE TagsInOrder(_, _, _, _)
TagsInOrder(s, p, parts, k) ==
    IF k > Len(parts) THEN TRUE
    ELSE LET m == FirstAt(s, p, CodeTag(parts[k]))
         IN  /\ m # 0
             /\ TagsInOrder(s, m + Len(CodeTag(parts[k])), parts, k + 1)

\* the blocks a flowable sequence stands for: every flowable but the Spacers
\* that only add room after a block; the Spacer of a horizontal rule is the
\* 0.2 inch one that does not follow a Preformatted
IsBlockAt(fl, j) ==
    \/ fl[j].kind # "Spacer"
    \/ /\ fl[j] = Spacer(200)
       /\ (j = 1 \/ fl[j - 1].kind # "Preformatted")

RECURSIVE BlocksUpTo(_, _)
BlocksUpTo(fl, j) ==
    IF j = 0 THEN <<>>
    ELSE IF IsBlockAt(fl, j) THEN Append(BlocksUpTo(fl, j - 1), fl[j])
    ELSE BlocksUpTo(fl, j - 1)

Blocks(fl) == BlocksUpTo(fl, Len(fl))

\* a list-item line as section 4.1 defines it: the trimmed content starts
\* with -, * or + followed by whitespace
MarkerThenSpace(l) ==
    LET t == strip(l)
    IN  Len(t) >= 2 /\ t[1] \in {"-", "*", "+"} /\ t[2] \in Whitespace

\* the item of a list-item line: marker and following whitespace removed,
\* the remainder inline-transformed
ItemOf(l) == Paragraph(format_inline(lstrip(Tail(strip(l)))), "CustomBody")

\* the step at hand appends flowables and nothing else happens to the output
Emitted == SubSeq(flowables', Len(flowables) + 1, Len(flowables'))
Appends == /\ Len(flowables') >= Len(flowables)
           /\ SubSeq(flowables', 1, Len(flowables)) = flowables

\* the position (from 1) of the last fence line among the first k lines
LastFence(k) ==
    LET S == {o \in 1..k : IsFence(lines[o])}
    IN  CHOOSE o \in S : \A o2 \in S : o2 <= o

\* the first line of the run of list-item lines that ends with line k
\* (from 1); k + 1 when line k is no list-item line
RunStart(k) ==
    Min({s \in 1..(k + 1) : \A j \in s..k : MarkerThenSpace(lines[j])})

RunItems(s, k) == [j \in 1..(k - s + 1) |-> ItemOf(lines[s + j - 1])]

\* the entity-escaped form of a text: each of &, < and > replaced by its
\* entity, every other character kept
EntityOf(c) ==
    IF c = "&" THEN <<"&", "a", "m", "p", ";">>
    ELSE IF c = "<" THEN <<"&", "l", "t", ";">>
    ELSE IF c = ">" THEN <<"&", "g", "t", ";">>
    ELSE <<c>>

RECURSIVE EntityEscaped(_)
EntityEscaped(t) ==
    IF t = <<>> THEN <<>> ELSE EntityOf(Head(t)) \o EntityEscaped(Tail(t))

NoInlineMarkers(t) ==
    \A k \in 1..Len(t) : t[k] \notin {Backtick, "*", "_", "[", "]"}

---------------------------------------------------------------------------
(* Properties of parse_markdown and _format_inline *)

\* C1: when the input ends inside a code fence that was opened and never
\* closed, the end-of-input step emits a code block that holds exactly the
\* lines accumulated since the opening fence; they are not dropped.
C1_UnterminatedFenceFlushed ==
    [][ (pc = "loop" /\ pc' = "done" /\ in_code_block)
          => /\ Appends
             /\ \E j \in 1..Len(Emitted) :
                    Emitted[j] = Preformatted(join(code_block_lines)) ]_vars

\* C2: for an argument with n >= 1 code spans, the text _format_inline
\* returns holds exactly n code-span tags, in extraction order, the i-th
\* wrapping the escaped content of the i-th span, and neither a placeholder
\* token nor a bold or italic tag made from one is left in it.
C2_CodeSpansRestored ==
    LET parts == save_code_parts(escape(arg), 1)
    IN  (stage = "done" /\ parts # <<>>)
          => /\ TagsInOrder(text, 1, parts, 1)
             /\ CountFrom(text, 1, CodeTagOpen) = Len(parts)
             /\ ~Occurs(text, <<"C", "O", "D", "E", "_", "P", "L", "A", "C",
                                 "E", "H", "O", "L", "D", "E", "R">>)

\* C3: a line outside a code fence whose trimmed content is ---, *** or ___
\* makes the parser emit one horizontal rule (after the pending list, if
\* any, is flushed) and nothing else; it adds no list item and opens no list.
C3_RuleLineEmitsOnlyRule ==
    [][ (InLoop /\ ~in_code_block /\ IsRule(line))
          => /\ flowables' = Append(Flushed(flowables), Spacer(200))
             /\ list_items' = <<>>
             /\ ~in_list' ]_vars

\* C4: outside code mode a line is appended to the list-item accumulator
\* only if its trimmed content starts with -, * or + followed by whitespace,
\* and the appended item is the line with marker and whitespace removed.
C4_OnlyMarkerThenSpaceIsItem ==
    [][ (InLoop /\ ~in_code_block /\ list_items' # list_items
           /\ list_items' # <<>>)
          => /\ MarkerThenSpace(line)
             /\ Last(list_items') = ItemOf(line) ]_vars

C6_ListBeforeCode ==
    [][ (Appends /\ \E j \in 1..Len(Emitted) : Emitted[j].kind = "Preformatted")
          => list_items = <<>> ]_vars

\* C7: list mode with pending items and code-block mode are never active at
\* the same time.
C7_ExclusiveModes == ~(in_code_block /\ in_list /\ list_items # <<>>)

\* C8: while a fence is open every line that is not a fence line is appended
\* unchanged to the code accumulator and touches nothing else; the closing
\* fence emits one code block that holds exactly the lines between the two
\* fence lines, joined as they are.
C8_FenceBodyVerbatim ==
    [][ /\ (InLoop /\ in_code_block /\ ~IsFence(line))
            => /\ code_block_lines' = Append(code_block_lines, line)
               /\ UNCHANGED <<flowables, in_code_block, in_list, list_items>>
        /\ (InLoop /\ in_code_block /\ IsFence(line))
            => /\ flowables' = flowables \o
                      <<Preformatted(join(SubSeq(lines, LastFence(i) + 1, i))),
                        Spacer(200)>>
               /\ ~in_code_block' ]_vars

\* a fence that held a list-marker line and a heading line has been closed
C8_Witness ==
    /\ pc = "done"
    /\ \E j \in 1..Len(flowables) :
           flowables[j] = Preformatted(<<"-", " ", "a", "\n", "#", " ", "T">>)

\* C9: when a heading line, a rule line or a paragraph line (a non-blank
\* line that is no fence and no list-item line) is processed outside code
\* mode while list items are pending, one list block with all pending items
\* is emitted right before the block of that line and the parser leaves
\* list mode with an empty accumulator.
C9_ListFlushedBeforeBlock ==
    [][ (/\ InLoop
         /\ ~in_code_block
         /\ PendingList
         /\ ~IsFence(line)
         /\ strip(line) # <<>>
         /\ ~MarkerThenSpace(line))
          => /\ Appends
             /\ Len(Emitted) >= 2
             /\ Emitted[1].kind = "ListFlowable"
             /\ Emitted[1].items = list_items
             /\ \A j \in 2..Len(Emitted) : Emitted[j].kind # "ListFlowable"
             /\ ~in_list'
             /\ list_items' = <<>> ]_vars

\* C10: a run of k >= 1 consecutive list-item lines that is followed by a
\* blank line, or by the end of the input, yields one list block with
\* exactly the k items of the run, in order, and the blank line adds no
\* content block.
C10_RunIsOneList ==
    [][ (/\ pc = "loop"
         /\ ~in_code_block
         /\ i >= 1
         /\ MarkerThenSpace(lines[i])
         /\ (i < Len(lines) => strip(line) = <<>>))
          => /\ Appends
             /\ Len(Emitted) >= 1
             /\ Emitted[1].kind = "ListFlowable"
             /\ Emitted[1].items = RunItems(RunStart(i), i)
             /\ \A j \in 2..Len(Emitted) : Emitted[j].kind = "Spacer"
             /\ (list_items' = <<>> \/ pc' = "done") ]_vars

\* the flowables of a sequence that are no Spacer
IsContent(f) == f.kind # "Spacer"
Content(fl) == SelectSeq(fl, IsContent)

\* the marker of a heading of level n: n times # and a space
HeadingMarker(n) == [k \in 1..(n + 1) |-> IF k <= n THEN "#" ELSE " "]
HeadingStyle(n) == <<"Heading1", "Heading2", "Heading3">>[n]

\* the heading a heading line of level n stands for
HeadingOf(l, n) ==
    Paragraph(format_inline(strip(SubSeq(l, n + 2, Len(l)))), HeadingStyle(n))

\* C11: outside a code fence a line that starts with "# ", "## " or "### "
\* yields exactly one heading of level 1, 2 or 3 (after the pending list, if
\* any, is flushed) whose text is the inline-transformed trimmed remainder,
\* appended behind what was emitted before, so headings keep the input
\* order; a page break stands right before every level-2 heading and
\* nowhere else.
C11_HeadingBlocks ==
    /\ [](\A j \in 1..Len(flowables) :
            /\ flowables[j].kind = "PageBreak"
                 => /\ j < Len(flowables)
                    /\ flowables[j + 1].kind = "Paragraph"
                    /\ flowables[j + 1].style = "Heading2"
            /\ (flowables[j].kind = "Paragraph"
                  /\ flowables[j].style = "Heading2")
                 => (j > 1 /\ flowables[j - 1] = PageBreak))
    /\ [][ \A n \in 1..3 :
             (InLoop /\ ~in_code_block /\ startswith(line, HeadingMarker(n)))
               => /\ Appends
                  /\ Len(Emitted) >= 1
                  /\ PendingList =>
                         (Emitted[1].kind = "ListFlowable"
                            /\ Emitted[1].items = list_items)
                  /\ Content(IF PendingList THEN Tail(Emitted) ELSE Emitted) =
                         (IF n = 2 THEN <<PageBreak>> ELSE <<>>)
                             \o <<HeadingOf(line, n)>> ]_vars

\* "# T" followed by "## S" has been parsed
C11_Witness ==
    /\ pc = "done"
    /\ flowables =
           <<Paragraph(<<"T">>, "Heading1"), Spacer(150), PageBreak,
             Paragraph(<<"S">>, "Heading2"), Spacer(120)>>

\* the markdown marker characters
Markers == {"*", "_", Backtick, "[", "]", "(", ")"}

\* number of occurrences of the character c in s
CountChar(s, c) == Cardinality({k \in 1..Len(s) : s[k] = c})

RECURSIVE PlainPrefix(_)
PlainPrefix(s) ==
    IF s = <<>> \/ Head(s) \in Markers THEN 0 ELSE 1 + PlainPrefix(Tail(s))

\* s is made of marker-free text and pairs  d u d  with a marker-free,
\* non-empty u; with apart, two pairs do not touch each other
RECURSIVE PairsOnly(_, _, _)
PairsOnly(s, d, apart) ==
    IF s = <<>> THEN TRUE
    ELSE IF Head(s) \notin Markers THEN PairsOnly(Tail(s), d, apart)
    ELSE LET n    == PlainPrefix(SubSeq(s, Len(d) + 1, Len(s)))
             rest == SubSeq(s, 2 * Len(d) + n + 1, Len(s))
         IN  /\ startswith(s, d)
             /\ n >= 1
             /\ MatchAt(s, Len(d) + n + 1, d)
             /\ apart => (rest = <<>> \/ Head(rest) \notin Markers)
             /\ PairsOnly(rest, d, apart)

\* such an s with every pair  d u d  turned into one span of its own around
\* the escaped u; the span is bold for ** and italic for *
RECURSIVE PairsAsSpans(_, _)
PairsAsSpans(s, d) ==
    IF s = <<>> THEN <<>>
    ELSE IF Head(s) \notin Markers
         THEN EntityOf(Head(s)) \o PairsAsSpans(Tail(s), d)
    ELSE LET n    == PlainPrefix(SubSeq(s, Len(d) + 1, Len(s)))
             u    == EntityEscaped(SubSeq(s, Len(d) + 1, Len(d) + n))
             rest == SubSeq(s, 2 * Len(d) + n + 1, Len(s))
         IN  (IF Len(d) = 2
              THEN <<"<", "b", ">">> \o u \o <<"<", "/", "b", ">">>
              ELSE <<"<", "i", ">">> \o u \o <<"<", "/", "i", ">">>)
                 \o PairsAsSpans(rest, d)

\* C13 as stated: in a text made of marker-free text and **u** pairs every
\* pair becomes one bold span around u, and in a text made of marker-free
\* text and *u* pairs every pair becomes one italic span of its own.
C13_EveryPairOneSpan ==
    \A d \in {<<"*", "*">>, <<"*">>} :
        (stage = "done" /\ PairsOnly(arg, d, FALSE))
          => text = PairsAsSpans(arg, d)

\* C13 amended: the same, for pairs that do not touch each other (some
\* marker-free text stands between two pairs).
C13_SeparatePairOneSpan ==
    \A d \in {<<"*", "*">>, <<"*">>} :
        (stage = "done" /\ PairsOnly(arg, d, TRUE))
          => text = PairsAsSpans(arg, d)

\* "*a* *a*" has become two italic spans
C13_Witness ==
    /\ stage = "done"
    /\ arg = <<"*", "a", "*", " ", "*", "a", "*">>
    /\ text = ItalicTag(<<"a">>) \o <<" ">> \o ItalicTag(<<"a">>)

---------------------------------------------------------------------------
(* The glob batch *)

\* what the for loop printed: one line for a file it tried to convert
Attempts == SelectSeq(stdout, LAMBDA e : e.kind \in {"ok", "failed"})

\* C14: in a glob batch a failing file does not end the batch: once the for
\* loop runs, the files tried so far are the first file_index matched files,
\* each once and in the order of the match, a failure is printed for the file
\* that failed, and main is left only when every matched file was tried
C14_BatchIsolation ==
    /\ main_pc # "glob"
          => /\ Len(Attempts) = file_index
             /\ file_index <= Len(input_files)
             /\ \A k \in 1..file_index : Attempts[k].file = input_files[k]
    /\ main_pc \notin {"glob", "for"} => file_index = Len(input_files)

C14_Witness ==
    /\ main_pc = "done"
    /\ Len(input_files) = 3
    /\ Len(Attempts) = 3
    /\ Attempts[1].kind = "failed"
    /\ Attempts[2].kind = "ok"
    /\ Attempts[3].kind = "failed"

---------------------------------------------------------------------------
(* Calls on one converter *)

\* C15: every call of parse_markdown starts outside a code block and outside
\* a list, with empty accumulators and no flowable, and two calls on the same
\* document return the same flowables whatever was parsed in between
C15_CallsIndependent ==
    /\ (pc = "loop" /\ i = 0)
          => /\ ~in_code_block
             /\ ~in_list
             /\ code_block_lines = <<>>
             /\ list_items = <<>>
             /\ flowables = <<>>
    /\ \A j, k \in 1..Len(returned) :
          returned[j].doc = returned[k].doc
            => returned[j].result = returned[k].result

C15_Witness ==
    /\ Len(returned) = 3
    /\ returned[1].doc = <<<<" ", "x", "<", "y", " ">>>>
    /\ returned[2].doc = <<<<"-", " ", "a">>, <<Backtick, Backtick, Backtick>>>>
    /\ returned[3].doc = returned[1].doc
    /\ Len(returned[3].result) = 2

---------------------------------------------------------------------------
(* Emitted flowables *)

\* C16: while the lines are processed, a flowable that was appended keeps
\* its place and its content, flowables only grows at its end, and no
\* flowable holds the list object that list_items is bound to
C16_EmittedBlocksFrozen ==
    /\ [](pc = "loop" => aliases = {})
    /\ [][ pc = "loop"
             => /\ Len(flowables') >= Len(flowables)
                /\ \A j \in 1..Len(flowables) : flowables'[j] = flowables[j]
         ]_vars

C16_Witness ==
    /\ pc = "loop"
    /\ in_list
    /\ \E j \in 1..Len(flowables) :
          /\ flowables[j].kind = "ListFlowable"
          /\ flowables[j].items # list_items
          /\ list_items # <<>>

---------------------------------------------------------------------------
(* Termination *)

\* C17: parse_markdown terminates: every iteration of the loop, whatever its
\* branch, moves i to the next line and leaves lines alone, the loop is left
\* when i has reached the number of lines, and the call does return
C17_Terminates ==
    /\ [][ InLoop => (i' = i + 1 /\ lines' = lines /\ pc' = "loop") ]_vars
    /\ [][ (pc = "loop" /\ ~InLoop) => (i' = i /\ pc' = "done") ]_vars
    /\ [](pc = "done" => i = Len(lines))
    /\ [](i <= Len(lines))
    /\ <>(pc = "done")

C17_Witness ==
    /\ pc = "done"
    /\ i = 2
    /\ lines = <<<<Backtick, Backtick, Backtick>>, <<"-", " ", "a">>>>

---------------------------------------------------------------------------
(* The loop invariant *)

\* C18: at the start of every iteration in_list is set exactly when
\* list_items is not empty, code_block_lines is empty when in_code_block is
\* clear, and no ListFlowable in flowables has no item
C18_LoopInvariant ==
    /\ pc = "loop"
          => /\ in_list <=> list_items # <<>>
             /\ ~in_code_block => code_block_lines = <<>>
    /\ \A j \in 1..Len(flowables) :
          flowables[j].kind = "ListFlowable" => flowables[j].items # <<>>

C18_Witness ==
    /\ pc = "loop"
    /\ in_list
    /\ list_items # <<>>
    /\ in_code_block
    /\ \E j \in 1..Len(flowables) : flowables[j].kind = "ListFlowable"

=============================================================================
